---- MODULE Spec2Model ----
(***************************************************************************)
(* Model of the matching and scoring engine of getdealscout                *)
(* (src/amazon_matcher.py and its collaborators).                          *)
(*                                                                         *)
(* Money is kept in integer cents, percentages in hundredths of a percent. *)
(* A Python value that may be None is a sequence of length 0 or 1:         *)
(* <<>> is None and <<v>> is the value v.                                  *)
(***************************************************************************)
EXTENDS Integers, Sequences, FiniteSets, TLC

VARIABLES
    vo_in,      \* validate_opportunity: the arguments (amazon_data fields, profit)
    vo_out,     \* validate_opportunity: the returned tuple, or NotCalled
    cp_in,      \* calculate_profit: the arguments
    cp_out,     \* calculate_profit: the returned dict, or NotCalled
    sel_in,     \* validate_best_amazon_match: the arguments and the judge's response
    sel_out,    \* validate_best_amazon_match: what it returned or raised, or NotCalled
    q_in,       \* the priority queue: the table, the day and the batch size of a run
    q_out,      \* the priority queue: the records the run will handle, or NotCalled
    pk_in,      \* parse_keepa_product: the raw Keepa record
    pk_out,     \* parse_keepa_product: the returned dict, or NotCalled
    names,      \* clean_product_names_batch: each product's 'Cleaned Product Name'
    batch_log,  \* clean_product_names_batch: the batches handled so far
    store,      \* the Products table: record id -> fields
    history,    \* the Price History table, in order of creation
    queue,      \* match_products: the records (id, fields as fetched) still to handle
    pc,         \* match_products: "idle", "running" or "crashed" (an uncaught exception)
    now,        \* the clock, in days
    calls,      \* the calls made while handling the last product of the loop
    retrieval   \* the catalog request made for that product and what it returned

funVars == <<vo_in, vo_out, cp_in, cp_out, sel_in, sel_out, q_in, q_out,
             pk_in, pk_out, names, batch_log>>
cycleVars == <<store, history, queue, pc, now, calls, retrieval>>
vars == <<vo_in, vo_out, cp_in, cp_out, sel_in, sel_out, q_in, q_out,
          pk_in, pk_out, names, batch_log,
          store, history, queue, pc, now, calls, retrieval>>

-----------------------------------------------------------------------------
(* Python values *)

None == <<>>
Some(v) == <<v>>
Val(x) == x[1]
IsNone(x) == x = None

\* Python truthiness of an optional number: None and 0 are falsy.
Truthy(x) == x # None /\ Val(x) # 0

Abs(n) == IF n < 0 THEN -n ELSE n
Max(a, b) == IF a >= b THEN a ELSE b
Min(a, b) == IF a <= b THEN a ELSE b

RECURSIVE Sum(_)
Sum(s) == IF s = <<>> THEN 0 ELSE Head(s) + Sum(Tail(s))

NotCalled == [called |-> FALSE]

-----------------------------------------------------------------------------
(* Validation thresholds, amazon_matcher.py lines 17-21 *)

SALES_RANK_EXCELLENT == 10000
SALES_RANK_GOOD == 50000
SALES_RANK_POOR == 100000
MIN_PROFIT == 1000
MIN_OFFERS == 2

-----------------------------------------------------------------------------
(* validate_opportunity, amazon_matcher.py lines 529-613 *)

\* Layer 1: sales rank. <<adjustment, signal>>
SalesRankLayer(sales_rank) ==
    IF Truthy(sales_rank)
    THEN IF Val(sales_rank) < SALES_RANK_EXCELLENT THEN <<25, "Hot seller">>
         ELSE IF Val(sales_rank) < SALES_RANK_GOOD THEN <<15, "Good sales">>
         ELSE IF Val(sales_rank) < SALES_RANK_POOR THEN <<5, "Moderate sales">>
         ELSE <<-20, "Slow seller">>
    ELSE <<-10, "No sales rank data">>

\* Layer 2: profit margin (profit in cents). `if profit:` is a truthiness test.
ProfitLayer(profit) ==
    IF Truthy(profit)
    THEN IF Val(profit) >= 5000 THEN <<20, "Excellent profit">>
         ELSE IF Val(profit) >= 2500 THEN <<15, "Good profit">>
         ELSE IF Val(profit) >= MIN_PROFIT THEN <<10, "Decent profit">>
         ELSE <<-30, "Low profit">>
    ELSE <<-40, "No profit data">>

\* Layer 3: competition.
OfferLayer(offer_count) ==
    IF offer_count >= 5 THEN <<10, "Multiple sellers">>
    ELSE IF offer_count >= MIN_OFFERS THEN <<5, "Few sellers">>
    ELSE <<-15, "Limited sellers">>

\* A stability layer that is content with nine samples.
PriceStabilityLayerFromNine(price_history, current_price) ==
    IF Len(price_history) >= 9 /\ Truthy(current_price)
    THEN LET n == Len(price_history)
             s == Sum(price_history)
             d == Abs(n * Val(current_price) - s)
         IN  IF 10 * d < s THEN << <<10, "Stable price">> >>
             ELSE IF 4 * d < s THEN << <<5, "Price varies">> >>
             ELSE << <<-15, "Volatile price">> >>
    ELSE <<>>

\* A stability layer that punishes a volatile price as hard as a low profit.
PriceStabilityLayerHarsh(price_history, current_price) ==
    IF Len(price_history) >= 10 /\ Truthy(current_price)
    THEN LET n == Len(price_history)
             s == Sum(price_history)
             d == Abs(n * Val(current_price) - s)
         IN  IF 10 * d < s THEN << <<10, "Stable price">> >>
             ELSE IF 4 * d < s THEN << <<5, "Price varies">> >>
             ELSE << <<-30, "Volatile price">> >>
    ELSE <<>>

\* Layer 4: price stability. The layer is skipped (<<>>) unless the history has
\* at least 10 samples and the current price is truthy. With n samples of sum s,
\* |cur - s/n| / (s/n) < 1/10  is  10 * |n*cur - s| < s  for s > 0.
PriceStabilityLayer(price_history, current_price) ==
    IF Len(price_history) >= 10 /\ Truthy(current_price)
    THEN LET n == Len(price_history)
             s == Sum(price_history)
             d == Abs(n * Val(current_price) - s)
         IN  IF 10 * d < s THEN << <<10, "Stable price">> >>
             ELSE IF 4 * d < s THEN << <<5, "Price varies">> >>
             ELSE << <<-15, "Volatile price">> >>
    ELSE <<>>

\* The confidence before the status is determined and before it is clamped.
RawConfidence(amazon_data, profit) ==
    LET l4 == PriceStabilityLayer(amazon_data.price_history, amazon_data.amazon_price)
    IN  50 + SalesRankLayer(amazon_data.sales_rank)[1]
           + ProfitLayer(profit)[1]
           + OfferLayer(amazon_data.offer_count)[1]
           + (IF l4 = <<>> THEN 0 ELSE l4[1][1])

\* A status scheme with a second low tier, "Skip", below 40.
DetermineStatusSkipTier(confidence) ==
    IF confidence >= 80 THEN "Profitable"
    ELSE IF confidence >= 60 THEN "Potential"
    ELSE IF confidence >= 40 THEN "Risky"
    ELSE "Skip"

\* Lines 602-608: the status is determined from the confidence BEFORE the clamp.
DetermineStatus(confidence) ==
    IF confidence >= 80 THEN "Profitable"
    ELSE IF confidence >= 60 THEN "Potential"
    ELSE "Risky"

\* The confidence left as the layers produced it.
ClampNone(confidence) == confidence

\* Line 610.
Clamp(confidence) == Max(0, Min(100, confidence))

validate_opportunity(amazon_data, profit) ==
    LET l4 == PriceStabilityLayer(amazon_data.price_history, amazon_data.amazon_price)
        raw == RawConfidence(amazon_data, profit)
        confidence == Clamp(raw)
    IN  [called |-> TRUE,
         is_valid |-> confidence >= 60,
         confidence |-> confidence,
         status |-> DetermineStatus(raw),
         warnings |-> << SalesRankLayer(amazon_data.sales_rank)[2],
                         ProfitLayer(profit)[2],
                         OfferLayer(amazon_data.offer_count)[2] >>
                      \o (IF l4 = <<>> THEN <<>> ELSE <<l4[1][2]>>)]

-----------------------------------------------------------------------------
(* Inputs of validate_opportunity *)

MaxHistory == 11

\* A price history of n positive samples (parse_keepa_product keeps only the
\* positive ones, line 456): n - k samples of 1000 followed by k samples of 2000.
History(n, k) == [i \in 1..n |-> IF i <= n - k THEN 1000 ELSE 2000]

Histories ==
    { History(n, k) : n \in {0, 9, 10, MaxHistory}, k \in {0, 1, 5} }

SalesRanks == {None, Some(0), Some(9999), Some(10000), Some(49999), Some(50000),
               Some(99999), Some(100000)}

Profits == {None, Some(-500), Some(0), Some(1), Some(999), Some(1000), Some(2499),
            Some(2500), Some(4999), Some(5000)}

OfferCounts == {0, 1, 2, 4, 5}

CurrentPrices == {None, Some(1000), Some(1150), Some(1500)}

VOInputs ==
    [sales_rank : SalesRanks, profit : Profits, offer_count : OfferCounts,
     price_history : Histories, amazon_price : CurrentPrices]

VOIdle == vo_in = NotCalled /\ vo_out = NotCalled
CPIdle == cp_in = NotCalled /\ cp_out = NotCalled
SelIdle == sel_in = NotCalled /\ sel_out = NotCalled
QIdle == q_in = NotCalled /\ q_out = NotCalled
PKIdle == pk_in = NotCalled /\ pk_out = NotCalled
CleanIdle == names = <<>> /\ batch_log = <<>>
CycleIdle ==
    /\ store = <<>>
    /\ history = <<>>
    /\ queue = <<>>
    /\ pc = "idle"
    /\ now = 0
    /\ calls = <<>>
    /\ retrieval = NotCalled

InitValidate ==
    /\ vo_in \in VOInputs
    /\ vo_out = NotCalled
    /\ CPIdle
    /\ SelIdle
    /\ QIdle
    /\ PKIdle
    /\ CleanIdle
    /\ CycleIdle

ValidateOpportunity ==
    /\ vo_out = NotCalled
    /\ vo_out' = validate_opportunity(vo_in, vo_in.profit)
    /\ UNCHANGED <<vo_in, cp_in, cp_out, sel_in, sel_out, q_in, q_out,
                 pk_in, pk_out, names, batch_log, cycleVars>>

NextValidate == ValidateOpportunity

SpecValidate == InitValidate /\ [][NextValidate]_vars

-----------------------------------------------------------------------------
(* calculate_profit, amazon_matcher.py lines 514-527 *)

\* round(x, 2) of the float x = num / den (den > 0), in units of 0.01: the
\* nearest integer to num / den. Python rounds the binary float, which differs
\* from the exact quotient by a relative error near 1e-16, so on an exact tie
\* either neighbour can come out; off a tie the result is the nearest one.
Round2(num, den) ==
    LET q == num \div den
    IN  { r \in {q, q + 1} : 2 * Abs(r * den - num) <= den }

\* profit = amazon_price - costco_price - fba_fees - amazon_price * 0.15, in
\* hundredths of a cent: 100 * (sale - cost - fees) - 15 * sale.
UnroundedProfit(costco_price, amazon_price, fba_fees) ==
    100 * (amazon_price - costco_price - fba_fees) - 15 * amazon_price

\* calculate_profit with the ROI derived from the profit already rounded to cents.
calculate_profit_roi_of_rounded(costco_price, amazon_price, fba_fees) ==
    IF ~Truthy(costco_price) \/ ~Truthy(amazon_price)
    THEN { [called |-> TRUE, profit |-> None, roi |-> None] }
    ELSE LET n == UnroundedProfit(Val(costco_price), Val(amazon_price), fba_fees)
         IN  { [called |-> TRUE, profit |-> Some(p), roi |-> Some(r)] :
                 <<p, r>> \in UNION { { <<p1, r1>> :
                        r1 \in IF Val(costco_price) > 0
                               THEN Round2(100 * 100 * p1, Val(costco_price))
                               ELSE {0} } : p1 \in Round2(n, 100) } }

\* The set of results the float arithmetic can produce (one, or two on a tie).
\* roi = (profit / costco_price) * 100 if costco_price > 0 else 0, in hundredths
\* of a percent: 100 * (profit in hundredths of a cent) / (cost in cents).
calculate_profit(costco_price, amazon_price, fba_fees) ==
    IF ~Truthy(costco_price) \/ ~Truthy(amazon_price)
    THEN { [called |-> TRUE, profit |-> None, roi |-> None] }
    ELSE LET n == UnroundedProfit(Val(costco_price), Val(amazon_price), fba_fees)
         IN  { [called |-> TRUE, profit |-> Some(p), roi |-> Some(r)] :
                 p \in Round2(n, 100),
                 r \in IF Val(costco_price) > 0
                       THEN Round2(100 * n, Val(costco_price))
                       ELSE {0} }

(* Inputs of calculate_profit *)

CostcoPrices == {None, Some(-500), Some(0), Some(300), Some(1700), Some(2000)}
AmazonPrices == {None, Some(0), Some(10), Some(1001), Some(2000), Some(4500)}
FbaFees == {0, 300, 333}

CPInputs == [costco_price : CostcoPrices, amazon_price : AmazonPrices,
             fba_fees : FbaFees]

InitProfit ==
    /\ cp_in \in CPInputs
    /\ cp_out = NotCalled
    /\ VOIdle
    /\ SelIdle
    /\ QIdle
    /\ PKIdle
    /\ CleanIdle
    /\ CycleIdle

CalculateProfit ==
    /\ cp_out = NotCalled
    /\ cp_out' \in calculate_profit(cp_in.costco_price, cp_in.amazon_price,
                                    cp_in.fba_fees)
    /\ UNCHANGED <<cp_in, vo_in, vo_out, sel_in, sel_out, q_in, q_out,
                 pk_in, pk_out, names, batch_log, cycleVars>>

NextProfit == CalculateProfit

SpecProfit == InitProfit /\ [][NextProfit]_vars

-----------------------------------------------------------------------------
(* parse_keepa_product, amazon_matcher.py lines 438-512 *)

\* A raw Keepa record is [asin, brand, csv, fbaFees, offerCountFBA]. csv is a
\* list of series; Python's csv[1] (the primary price series, in cents) is
\* csv[2] here and Python's csv[3] (the sales-rank series) is csv[4]. An empty
\* series stands for a falsy one (None or []). fbaFees is None or a record.
\* The record's brand is never read by the parser.

Last(s) == s[Len(s)]

IsPositive(p) == p > 0

parse_keepa_product(keepa_data) ==
    LET csv == keepa_data.csv
        has_price_data == Len(csv) > 0 /\ Len(csv) > 1 /\ csv[2] # <<>>
        has_rank_data == Len(csv) > 3 /\ csv[4] # <<>>
    IN  [asin |-> keepa_data.asin,
         amazon_price |->
             IF has_price_data /\ Last(csv[2]) > 0 THEN Some(Last(csv[2])) ELSE None,
         fba_fees |->
             IF keepa_data.fbaFees # None
             THEN Val(keepa_data.fbaFees).pickAndPackFee
                  + Val(keepa_data.fbaFees).storageFee
             ELSE 0,
         sales_rank |->
             IF has_rank_data /\ Last(csv[4]) > 0 THEN Some(Last(csv[4])) ELSE None,
         offer_count |-> keepa_data.offerCountFBA,
         price_history |->
             IF has_price_data THEN SelectSeq(csv[2], IsPositive) ELSE <<>>]

-----------------------------------------------------------------------------
(* validate_best_amazon_match, amazon_matcher.py lines 114-271 *)

\* Line 255 / 269: product_data['match_confidence'] = confidence.
WithConfidence(product_data, confidence) ==
    [asin |-> product_data.asin,
     amazon_price |-> product_data.amazon_price,
     fba_fees |-> product_data.fba_fees,
     sales_rank |-> product_data.sales_rank,
     offer_count |-> product_data.offer_count,
     price_history |-> product_data.price_history,
     match_confidence |-> confidence]

\* A JSON field of the judge's answer: absent, present with a value that is not
\* a number (a string, null), or an integer.
Absent == [t |-> "absent"]
NotANumber == [t |-> "other"]
Number(v) == [t |-> "number", v |-> v]

\* Python's list[i] for an integer i: negative indexes count from the end;
\* None stands for IndexError.
PyIndex(list, i) ==
    IF i >= 0 /\ i < Len(list) THEN Some(list[i + 1])
    ELSE IF i < 0 /\ -i <= Len(list) THEN Some(list[Len(list) + i + 1])
    ELSE None

\* The except branch annotating the first result with 85, the default that
\* match_products reads when no match_confidence is present (line 811).
FallbackToFirstAt85(amazon_results) ==
    IF amazon_results # <<>>
    THEN Some(WithConfidence(parse_keepa_product(amazon_results[1]), 85))
    ELSE None

\* Lines 263-271: the except branch.
FallbackToFirst(amazon_results) ==
    IF amazon_results # <<>>
    THEN Some(WithConfidence(parse_keepa_product(amazon_results[1]), 70))
    ELSE None

Returned(value) == [called |-> TRUE, raised |-> FALSE, value |-> value]
Raised == [called |-> TRUE, raised |-> TRUE, value |-> None]

\* A threshold test that accepts every positive confidence.
AcceptsPositive(confidence) == confidence > 0

\* Line 246 with the threshold test dropped: any parsed confidence is accepted.
AcceptsAny(confidence) == TRUE

\* Line 246.
Accepts(confidence) == confidence >= 75

\* response is what the judgment procedure does for this call:
\*   kind "unavailable": the client cannot be built (lines 126-128, outside try)
\*   kind "raise":       client.chat.completions.create raises
\*   kind "not_json":    json.loads raises
\*   kind "json_array":  valid JSON that is not an object (.get raises)
\*   kind "json_object": an object with the fields confidence and index
\* costco_product only feeds the prompt text (lines 165-222).
validate_best_amazon_match(costco_product, amazon_results, response) ==
    IF response.kind = "unavailable" THEN Raised
    ELSE IF response.kind # "json_object"
    THEN Returned(FallbackToFirst(amazon_results))
    ELSE
      \* confidence = match_data.get('confidence', 0)
      IF response.confidence.t = "other"
      THEN Returned(FallbackToFirst(amazon_results))      \* TypeError on >=
      ELSE
        LET confidence ==
                IF response.confidence.t = "absent" THEN 0 ELSE response.confidence.v
        IN  IF Accepts(confidence)
            THEN IF response.index.t # "number"
                 THEN Returned(FallbackToFirst(amazon_results))  \* KeyError, TypeError
                 ELSE LET picked == PyIndex(amazon_results, response.index.v - 1)
                      IN  IF picked = None
                          THEN Returned(FallbackToFirst(amazon_results)) \* IndexError
                          ELSE Returned(Some(WithConfidence(
                                   parse_keepa_product(Val(picked)), confidence)))
            ELSE Returned(None)

-----------------------------------------------------------------------------
(* Inputs of validate_best_amazon_match *)

MaxCandidates == 2

BrandHP == <<"H", "P">>
BrandHp == <<"h", "p">>
BrandLG == <<"L", "G">>

Fees(pick_pack, storage) == Some([pickAndPackFee |-> pick_pack, storageFee |-> storage])

\* The catalog: three listings, one of them without a current price (its latest
\* price sample is Keepa's -1) and one of another brand.
ListingA ==
    [asin |-> "B00A", brand |-> BrandHp, csv |-> << <<>>, <<4400, 4500>>, <<>>, <<5000>> >>,
     fbaFees |-> Fees(250, 50), offerCountFBA |-> 6]
ListingB ==
    [asin |-> "B00B", brand |-> BrandHP, csv |-> << <<>>, <<4500, -1>>, <<>>, <<>> >>,
     fbaFees |-> None, offerCountFBA |-> 1]
ListingC ==
    [asin |-> "B00C", brand |-> BrandLG, csv |-> << <<>>, <<2000>> >>,
     fbaFees |-> None, offerCountFBA |-> 0]

Catalog == {ListingA, ListingB, ListingC}

RECURSIVE SeqsUpTo(_, _)
SeqsUpTo(S, n) ==
    IF n = 0 THEN { <<>> }
    ELSE LET shorter == SeqsUpTo(S, n - 1)
         IN  shorter \cup { Append(q, x) : q \in shorter, x \in S }

ConfidenceFields ==
    {Absent, NotANumber} \cup { Number(v) : v \in {-5, 0, 40, 74, 75, 90, 100, 150} }

IndexFields ==
    {Absent, NotANumber} \cup { Number(v) : v \in -3 .. MaxCandidates + 1 }

Responses ==
    { [kind |-> k] : k \in {"unavailable", "raise", "not_json", "json_array"} }
    \cup [kind : {"json_object"}, confidence : ConfidenceFields, index : IndexFields]

CostcoProducts == [brand : {BrandHP, BrandLG}, price : {Some(2000)}]

SelInputs ==
    [costco_product : CostcoProducts,
     amazon_results : SeqsUpTo(Catalog, MaxCandidates),
     response : Responses]

InitSelect ==
    /\ sel_in \in SelInputs
    /\ sel_out = NotCalled
    /\ VOIdle
    /\ CPIdle
    /\ QIdle
    /\ PKIdle
    /\ CleanIdle
    /\ CycleIdle

ValidateBestAmazonMatch ==
    /\ sel_out = NotCalled
    /\ sel_out' = validate_best_amazon_match(sel_in.costco_product,
                                             sel_in.amazon_results, sel_in.response)
    /\ UNCHANGED <<sel_in, vo_in, vo_out, cp_in, cp_out, q_in, q_out,
                 pk_in, pk_out, names, batch_log, cycleVars>>

NextSelect == ValidateBestAmazonMatch

SpecSelect == InitSelect /\ [][NextSelect]_vars

-----------------------------------------------------------------------------
(* The record store, utils.py *)

NumProducts == 2
ProductIds == 1..NumProducts

\* A Products record's fields. Status and Override Amazon ASIN are set by hand
\* in the store; "" is a blank field. The other fields are written by the cycle.
ProductFields(status, override_asin) ==
    [Status |-> status,
     OverrideASIN |-> override_asin,
     Brand |-> BrandHP,
     CostcoPrice |-> Some(2000),
     AmazonASIN |-> None,
     AmazonPrice |-> None,
     MatchConfidence |-> None,
     LastUpdated |-> Some(0)]

\* Table.all(): every record, as {id, fields}, in table order.
AllRecords(table) == [i \in 1..Len(table) |-> [id |-> i, fields |-> table[i]]]

\* utils.get_products_by_status, lines 72-84.
get_products_by_status(table, status) ==
    SelectSeq(AllRecords(table), LAMBDA r : r.fields.Status = status)

\* utils.update_product, lines 58-70: the given fields replace the stored ones.
update_product(table, record_id, updates) ==
    [table EXCEPT ![record_id] =
        [f \in DOMAIN @ |-> IF f \in DOMAIN updates THEN updates[f] ELSE @[f]]]

MaxPriceHistory == 1

\* utils.create_price_history is called by match_products (lines 759, 832) and
\* is not defined in utils.py; it is modelled after the design's PriceHistoryEntry
\* (product reference, old price, new price), appended to the history table.
create_price_history(table, product_record_id, old_price, new_price) ==
    Append(table, [Product |-> product_record_id,
                   OldPrice |-> old_price,
                   NewPrice |-> new_price])

-----------------------------------------------------------------------------
(* The catalog source as the cycle sees it *)

\* What one Keepa request can do: fail in transport (network error, non-2xx),
\* answer with an error payload, answer with no products, or answer with products.
RequestFailures ==
    { [kind |-> k] : k \in {"transport_error", "error_payload", "no_results"} }

SearchResultLists ==
    { <<ListingA>>, <<ListingB>>, <<ListingC, ListingA>>, <<ListingB, ListingA>> }

SearchOutcomes ==
    RequestFailures \cup { [kind |-> "results", products |-> l] : l \in SearchResultLists }

\* search_amazon_product, lines 373-436: the products, or None on every failure
\* and on an empty answer alike. None and the empty list are both <<>>.
search_amazon_product(outcome) ==
    IF outcome.kind = "results" /\ Len(outcome.products) > 0
    THEN outcome.products
    ELSE <<>>

FetchOutcomes(asin) ==
    RequestFailures
    \cup { [kind |-> "results", products |-> <<l>>] : l \in { c \in Catalog : c.asin = asin } }

\* fetch_product_by_asin, lines 60-112: the parsed first product, or None.
fetch_product_by_asin(outcome) ==
    IF outcome.kind = "results" /\ Len(outcome.products) > 0
    THEN Some(parse_keepa_product(outcome.products[1]))
    ELSE None

\* What the judgment procedure may answer during a cycle.
CycleResponses ==
    { [kind |-> k] : k \in {"unavailable", "raise"} }
    \cup [kind : {"json_object"},
          confidence : { Number(v) : v \in {40, 90, 150} },
          index : { Number(v) : v \in 0..2 }]

-----------------------------------------------------------------------------
(* match_products, amazon_matcher.py lines 615-869 *)

MAX_DAYS_OLD == 14
MaxDay == 28

\* A sort key that ignores the confidence: oldest first only.
SortKeyOldestFirst(record) ==
    << 0,
       IF record.fields.LastUpdated = None THEN -1
       ELSE Val(record.fields.LastUpdated) >>

\* Lines 668-676: the sort key (Match Confidence Score or 100, Last Updated or
\* the epoch), compared as Python compares tuples.
SortKey(record) ==
    << IF record.fields.MatchConfidence = None THEN 100
       ELSE Val(record.fields.MatchConfidence),
       IF record.fields.LastUpdated = None THEN -1
       ELSE Val(record.fields.LastUpdated) >>

KeyLessEq(a, b) == a[1] < b[1] \/ (a[1] = b[1] /\ a[2] <= b[2])

\* sorted(): stable, ascending by key.
RECURSIVE sorted(_)
sorted(records) ==
    IF records = <<>> THEN <<>>
    ELSE LET front == sorted(SubSeq(records, 1, Len(records) - 1))
             x == records[Len(records)]
             before == SelectSeq(front, LAMBDA r : KeyLessEq(SortKey(r), SortKey(x)))
             after == SelectSeq(front, LAMBDA r : ~KeyLessEq(SortKey(r), SortKey(x)))
         IN  before \o <<x>> \o after

\* Lines 659-666: Matched records whose Last Updated is blank or before the cutoff.
matched_old(table, today, max_days_old) ==
    SelectSeq(AllRecords(table),
              LAMBDA r : /\ r.fields.Status = "Matched"
                         /\ \/ r.fields.LastUpdated = None
                            \/ Val(r.fields.LastUpdated) < today - max_days_old)

\* Lines 652-689: the priority queue of a run outside test mode. batch_size is
\* None or a number; `if batch_size and ...` makes 0 mean no cap.
PriorityQueue(table, today, batch_size, max_days_old) ==
    LET products == get_products_by_status(table, "ASIN Override")
                    \o get_products_by_status(table, "New")
                    \o sorted(matched_old(table, today, max_days_old))
    IN  IF Truthy(batch_size) /\ Len(products) > Val(batch_size)
        THEN SubSeq(products, 1, Val(batch_size))
        ELSE products

BatchSizes == {None, Some(0), Some(1)}

\* Lines 647-696: a run starts; with nothing to match it returns at once.
StartCycle ==
    /\ pc \in {"idle", "crashed"}
    /\ \E batch_size \in BatchSizes :
         LET products == PriorityQueue(store, now, batch_size, MAX_DAYS_OLD)
         IN  /\ queue' = products
             /\ pc' = IF products = <<>> THEN "idle" ELSE "running"
    /\ calls' = <<>>
    /\ retrieval' = NotCalled
    /\ UNCHANGED <<store, history, now, funVars>>

\* The end of one loop iteration that writes `updates` to the record: the write
\* either succeeds or raises, and nothing in match_products catches that. After a
\* successful write of a changed price a history entry is created inside
\* try/except (lines 757-768, 830-841), so its failure is only reported. The
\* history table takes at most MaxPriceHistory entries.
Persist(record, updates, price_change, called) ==
    \E write_ok \in BOOLEAN :
      IF ~write_ok
      THEN /\ pc' = "crashed"
           /\ calls' = called \o <<"update_product">>
           /\ UNCHANGED <<store, history, queue>>
      ELSE /\ store' = update_product(store, record.id, updates)
           /\ \E history_ok \in (IF price_change # None THEN BOOLEAN ELSE {TRUE}) :
                /\ (price_change # None /\ history_ok) => Len(history) < MaxPriceHistory
                /\ history' =
                     IF price_change # None /\ history_ok
                     THEN create_price_history(history, record.id,
                                               Val(price_change)[1], Val(price_change)[2])
                     ELSE history
           /\ calls' = called \o <<"update_product">>
                       \o (IF price_change # None THEN <<"create_price_history">> ELSE <<>>)
           /\ queue' = Tail(queue)
           /\ pc' = pc

\* Lines 739-740, 814-815: price_changed, with the old and the new price.
PriceChange(fields, amazon_data) ==
    IF Truthy(fields.AmazonPrice) /\ fields.AmazonPrice # amazon_data.amazon_price
    THEN Some(<<Val(fields.AmazonPrice), Val(amazon_data.amazon_price)>>)
    ELSE None

\* What the loop learns of a catalog request: the function it called, the
\* value that function returned and the listing it is left with (amazon_data,
\* None if there is none). `kind` is what happened inside the callee.
Retrieved(function, outcome, returned, amazon_data) ==
    [called |-> TRUE, function |-> function, kind |-> outcome.kind,
     returned |-> returned, selected |-> amazon_data]

\* An override update that scores the listing as the search path does when the
\* selector gave no confidence (line 811: 85).
OverrideMatchedAsSearched(amazon_data, today) ==
    [AmazonASIN |-> Some(amazon_data.asin),
     AmazonPrice |-> amazon_data.amazon_price,
     MatchConfidence |-> Some(85),
     Status |-> "Matched",
     OverrideASIN |-> "",
     LastUpdated |-> Some(today)]

\* Lines 743-754: the update written when the overriding listing has a price.
OverrideMatchedUpdates(amazon_data, today) ==
    [AmazonASIN |-> Some(amazon_data.asin),
     AmazonPrice |-> amazon_data.amazon_price,
     MatchConfidence |-> Some(100),
     Status |-> "Matched",
     OverrideASIN |-> "",
     LastUpdated |-> Some(today)]

\* An override update that, like the search path's (lines 852-855), writes only
\* the status and the date.
OverrideNotFoundAsSearched(today) ==
    [Status |-> "Not Found", LastUpdated |-> Some(today)]

\* Lines 779-783: the update written when the overriding listing could not be
\* fetched or has no price.
OverrideNotFoundUpdates(today) ==
    [Status |-> "Not Found", OverrideASIN |-> "", LastUpdated |-> Some(today)]

\* Lines 716-785: one loop iteration for a record in status 'ASIN Override'.
ProcessOverride ==
    /\ pc = "running"
    /\ queue # <<>>
    /\ Head(queue).fields.Status = "ASIN Override"
    /\ LET record == Head(queue)
           fields == record.fields
       IN  IF fields.OverrideASIN = ""
           THEN /\ queue' = Tail(queue)            \* `continue`
                /\ calls' = <<>>
                /\ retrieval' = NotCalled
                /\ UNCHANGED <<store, history, pc>>
           ELSE \E outcome \in FetchOutcomes(fields.OverrideASIN) :
                  LET amazon_data == fetch_product_by_asin(outcome)
                  IN  /\ retrieval' = Retrieved("fetch_product_by_asin", outcome,
                                               amazon_data, amazon_data)
                      /\ IF amazon_data # None /\ Truthy(Val(amazon_data).amazon_price)
                         THEN Persist(record,
                                      OverrideMatchedUpdates(Val(amazon_data), now),
                                      PriceChange(fields, Val(amazon_data)),
                                      <<"fetch_product_by_asin", "calculate_profit">>)
                         ELSE Persist(record,
                                      OverrideNotFoundUpdates(now),
                                      None, <<"fetch_product_by_asin">>)
    /\ UNCHANGED <<now, funVars>>

\* Lines 817-827: the update written when the selected listing has a price.
SearchMatchedUpdates(amazon_data, today) ==
    [AmazonASIN |-> Some(amazon_data.asin),
     AmazonPrice |-> amazon_data.amazon_price,
     MatchConfidence |-> Some(amazon_data.match_confidence),
     Status |-> "Matched",
     LastUpdated |-> Some(today)]

\* A search update that only dates the record.
SearchTouched(today) ==
    [LastUpdated |-> Some(today)]

\* Lines 851-855: the update written when nothing was selected or the selected
\* listing has no price.
SearchNotFoundUpdates(today) ==
    [Status |-> "Not Found", LastUpdated |-> Some(today)]

\* Lines 792-799: the selector is called only with a non-empty result list;
\* what it returns or raises depends on the judge's response.
Selections(fields, amazon_results) ==
    IF amazon_results # <<>>
    THEN { validate_best_amazon_match(
               [brand |-> fields.Brand, price |-> fields.CostcoPrice],
               amazon_results, response) : response \in CycleResponses }
    ELSE { Returned(None) }

\* Lines 787-857: one loop iteration for a record in any other status.
ProcessSearch ==
    /\ pc = "running"
    /\ queue # <<>>
    /\ Head(queue).fields.Status # "ASIN Override"
    /\ LET record == Head(queue)
           fields == record.fields
       IN  \E outcome \in SearchOutcomes :
           \E selection \in Selections(fields, search_amazon_product(outcome)) :
             LET amazon_results == search_amazon_product(outcome)
                 amazon_data == selection.value
                 called == <<"search_amazon_product">>
                           \o (IF amazon_results # <<>>
                               THEN <<"validate_best_amazon_match">> ELSE <<>>)
             IN  /\ retrieval' = Retrieved("search_amazon_product", outcome, amazon_results,
                                          IF selection.raised THEN None ELSE amazon_data)
                 /\ IF selection.raised
                    THEN /\ pc' = "crashed"
                         /\ calls' = called
                         /\ UNCHANGED <<store, history, queue>>
                    ELSE IF amazon_data # None /\ Truthy(Val(amazon_data).amazon_price)
                    THEN Persist(record,
                                 SearchMatchedUpdates(Val(amazon_data), now),
                                 PriceChange(fields, Val(amazon_data)),
                                 called \o <<"calculate_profit">>)
                    ELSE Persist(record, SearchNotFoundUpdates(now), None, called)
    /\ UNCHANGED <<now, funVars>>

\* Lines 862-869: the loop is over and the summary is printed.
FinishCycle ==
    /\ pc = "running"
    /\ queue = <<>>
    /\ pc' = "idle"
    /\ UNCHANGED <<store, history, queue, now, calls, retrieval, funVars>>

\* Time passes between runs.
AdvanceTime ==
    /\ pc \in {"idle", "crashed"}
    /\ now + MAX_DAYS_OLD <= MaxDay
    /\ now' = now + MAX_DAYS_OLD
    /\ UNCHANGED <<store, history, queue, pc, calls, retrieval, funVars>>

InitialProducts ==
    { ProductFields("New", "") }
    \cup { ProductFields("ASIN Override", a) : a \in {"", "B00A", "B00B"} }

Init ==
    /\ store \in [ProductIds -> InitialProducts]
    /\ history = <<>>
    /\ queue = <<>>
    /\ pc = "idle"
    /\ now = 0
    /\ calls = <<>>
    /\ retrieval = NotCalled
    /\ VOIdle
    /\ CPIdle
    /\ SelIdle
    /\ QIdle
    /\ PKIdle
    /\ CleanIdle

Next ==
    \/ StartCycle
    \/ ProcessOverride
    \/ ProcessSearch
    \/ FinishCycle
    \/ AdvanceTime

Spec == Init /\ [][Next]_vars

-----------------------------------------------------------------------------
(* The priority queue of a run on its own, lines 652-689 *)

MaxQueueProducts == 3
MaxBatch == 2

\* The day of the run.
QueueToday == MaxDay

QueueRecord(status, confidence, last_updated) ==
    [ProductFields(status, IF status = "ASIN Override" THEN "B00A" ELSE "")
        EXCEPT !.MatchConfidence = confidence, !.LastUpdated = last_updated]

\* The records a Products table may hold when a run starts: one of each status
\* the queue reads or ignores, and Matched records with or without a score,
\* never dated, dated long ago, one day before the cutoff and on the cutoff.
QueueRecords ==
    { QueueRecord(status, None, Some(0)) : status \in {"ASIN Override", "New", "Not Found"} }
    \cup { QueueRecord("Matched", confidence, last_updated) :
             confidence \in {None, Some(70)},
             last_updated \in {None, Some(0),
                               Some(QueueToday - MAX_DAYS_OLD - 1),
                               Some(QueueToday - MAX_DAYS_OLD)} }

QueueTables == UNION { [1..n -> QueueRecords] : n \in 0..MaxQueueProducts }

\* --batch-size, lines 880-886: absent, or a number.
QueueBatchSizes == {None} \cup { Some(b) : b \in 0..MaxBatch }

QInputs == [table : QueueTables, today : {QueueToday}, batch_size : QueueBatchSizes]

InitQueue ==
    /\ q_in \in QInputs
    /\ q_out = NotCalled
    /\ VOIdle
    /\ CPIdle
    /\ SelIdle
    /\ PKIdle
    /\ CleanIdle
    /\ CycleIdle

BuildQueue ==
    /\ q_out = NotCalled
    /\ q_out' = [called |-> TRUE,
                 products |-> PriorityQueue(q_in.table, q_in.today,
                                            q_in.batch_size, MAX_DAYS_OLD)]
    /\ UNCHANGED <<q_in, vo_in, vo_out, cp_in, cp_out, sel_in, sel_out,
                   pk_in, pk_out, names, batch_log, cycleVars>>

NextQueue == BuildQueue

SpecQueue == InitQueue /\ [][NextQueue]_vars

-----------------------------------------------------------------------------
(* parse_keepa_product on its own, lines 438-512 *)

MaxSamples == 3

\* Samples of a Keepa price series, in cents; -1 means no offer at that time.
PriceSamples == {-1, 0, 4400, 4500}

\* The csv of a raw record: absent, without a price series, or with a price
\* series of up to MaxSamples samples, alone or followed by a rank series.
KeepaCsvs ==
    { <<>>, << <<>> >> }
    \cup { << <<>>, series >> : series \in SeqsUpTo(PriceSamples, MaxSamples) }
    \cup { << <<>>, series, <<>>, <<5000>> >> : series \in SeqsUpTo(PriceSamples, MaxSamples) }

KeepaRecords ==
    [asin : {"B00A"}, brand : {BrandHP}, csv : KeepaCsvs,
     fbaFees : {None, Fees(250, 50)}, offerCountFBA : {0, 6}]

InitParse ==
    /\ pk_in \in KeepaRecords
    /\ pk_out = NotCalled
    /\ VOIdle
    /\ CPIdle
    /\ SelIdle
    /\ QIdle
    /\ CleanIdle
    /\ CycleIdle

ParseKeepaProduct ==
    /\ pk_out = NotCalled
    /\ pk_out' = [called |-> TRUE, product |-> parse_keepa_product(pk_in)]
    /\ UNCHANGED <<pk_in, vo_in, vo_out, cp_in, cp_out, sel_in, sel_out, q_in, q_out,
                   names, batch_log, cycleVars>>

NextParse == ParseKeepaProduct

SpecParse == InitParse /\ [][NextParse]_vars

-----------------------------------------------------------------------------
(* The Costco sync beside the matching run, costco_to_airtable.py lines 131-210 *)

\* utils.find_product_by_costco_sku, lines 28-41. A product's SKU is the number
\* of its record.
find_product_by_costco_sku(table, costco_sku) ==
    IF costco_sku \in 1..Len(table)
    THEN Some([id |-> costco_sku, fields |-> table[costco_sku]])
    ELSE None

\* utils.create_product, lines 15-26.
create_product(table, product_data) == Append(table, product_data)

\* utils.log_price_history, lines 88-112.
log_price_history(table, product_id, old_price, new_price) ==
    Append(table, [Product |-> product_id,
                   OldPrice |-> old_price,
                   NewPrice |-> new_price])

\* Costco prices a scrape may carry, in cents.
SyncPrices == {1800, 2000}

\* parse_product, lines 79-129: the record of a product seen for the first
\* time; it carries no status.
ScrapedProduct(price, today) ==
    [ProductFields("", "") EXCEPT !.CostcoPrice = Some(price),
                                  !.LastUpdated = Some(today)]

\* A product that a matching run matched on day 0 (lines 817-827).
MatchedOnDayZero ==
    [ProductFields("Matched", "") EXCEPT !.AmazonASIN = Some("B00A"),
                                         !.AmazonPrice = Some(4500),
                                         !.MatchConfidence = Some(90)]

InitSync ==
    /\ store \in UNION { [1..n -> {ProductFields("New", ""), MatchedOnDayZero}] :
                          n \in 1..NumProducts }
    /\ history = <<>>
    /\ queue = <<>>
    /\ pc = "idle"
    /\ now = 0
    /\ calls = <<>>
    /\ retrieval = NotCalled
    /\ VOIdle
    /\ CPIdle
    /\ SelIdle
    /\ QIdle
    /\ PKIdle
    /\ CleanIdle

\* save_to_airtable, lines 149-202: one iteration of its loop, for a scraped
\* product with the given SKU (None: no SKU) and price. Every store call may
\* raise; the except of line 200 ends the iteration where it stands. The sync
\* is followed up to the moment a matching run selects its products.
SaveProduct ==
    /\ q_out = NotCalled
    /\ \E costco_sku \in {None} \cup { Some(k) : k \in 1..NumProducts },
          new_price \in SyncPrices,
          raises \in {"nothing", "find_product_by_costco_sku", "update_product",
                      "log_price_history", "create_product"} :
         IF costco_sku = None \/ raises = "find_product_by_costco_sku"
         THEN UNCHANGED <<store, history>>
         ELSE LET existing == find_product_by_costco_sku(store, Val(costco_sku))
              IN  IF existing # None
                  THEN LET existing_price == Val(existing).fields.CostcoPrice
                       IN  IF existing_price # Some(new_price)
                           THEN IF raises = "update_product"
                                THEN UNCHANGED <<store, history>>
                                ELSE /\ store' = update_product(store, Val(existing).id,
                                                     [CostcoPrice |-> Some(new_price),
                                                      LastUpdated |-> Some(now)])
                                     /\ IF raises = "log_price_history"
                                        THEN history' = history
                                        ELSE /\ Len(history) < MaxPriceHistory
                                             /\ history' = log_price_history(
                                                    history, Val(existing).id,
                                                    Val(existing_price), new_price)
                           ELSE /\ store' = IF raises = "update_product" THEN store
                                            ELSE update_product(store, Val(existing).id,
                                                                [LastUpdated |-> Some(now)])
                                /\ history' = history
                  ELSE /\ Val(costco_sku) = Len(store) + 1
                       /\ store' = IF raises = "create_product" THEN store
                                   ELSE create_product(store, ScrapedProduct(new_price, now))
                       /\ history' = history
    /\ UNCHANGED <<queue, pc, now, calls, retrieval, funVars>>

\* match_products, lines 652-689: a matching run selects its products from the
\* store as it is now.
SelectProducts ==
    /\ q_out = NotCalled
    /\ \E batch_size \in BatchSizes :
         /\ q_in' = [table |-> store, today |-> now, batch_size |-> batch_size]
         /\ q_out' = [called |-> TRUE,
                      products |-> PriorityQueue(store, now, batch_size, MAX_DAYS_OLD)]
    /\ UNCHANGED <<vo_in, vo_out, cp_in, cp_out, sel_in, sel_out,
                   pk_in, pk_out, names, batch_log, cycleVars>>

NextSync ==
    \/ SaveProduct
    \/ AdvanceTime
    \/ SelectProducts

SpecSync == InitSync /\ [][NextSync]_vars

-----------------------------------------------------------------------------
(* clean_product_names_batch, clean_product_names.py lines 18-96 *)

MaxCleanProducts == 3
CleanBatchSize == 2

\* The products given to the function, as a table of the one field it writes.
CleanTables ==
    UNION { [1..n -> [CleanedName : {None, Some("old name")}]] : n \in 1..MaxCleanProducts }

\* Line 25: range(0, len(products), batch_size), batches numbered from 1.
NumBatches(n) == (n + CleanBatchSize - 1) \div CleanBatchSize
BatchFirst(k) == (k - 1) * CleanBatchSize + 1
BatchLast(k, n) == Min(k * CleanBatchSize, n)

\* What the model may answer for a batch of batch_len names: the call raises,
\* the content is not JSON, or it is a list of `count` names, which may be
\* shorter or longer than the batch.
CleanResponses(batch_len) ==
    { [kind |-> k] : k \in {"raise", "not_json"} }
    \cup { [kind |-> "names", count |-> c] : c \in 0..(batch_len + 1) }

\* Lines 83-90: the first `count` records from `first` on get a cleaned name.
RECURSIVE WriteNames(_, _, _)
WriteNames(table, first, count) ==
    IF count = 0 THEN table
    ELSE update_product(WriteNames(table, first, count - 1), first + count - 1,
                        [CleanedName |-> Some("cleaned name")])

InitClean ==
    /\ names \in CleanTables
    /\ batch_log = <<>>
    /\ VOIdle
    /\ CPIdle
    /\ SelIdle
    /\ QIdle
    /\ PKIdle
    /\ CycleIdle

\* Lines 25-94: one batch. The request, the parsing and the writes share one
\* try; the names are written one by one, so an error of the j-th write or of
\* batch[j] for a name beyond the batch ends the batch after the earlier writes.
\* write_error_at = 0 means that no write raises.
CleanBatch ==
    /\ Len(batch_log) < NumBatches(Len(names))
    /\ LET k == Len(batch_log) + 1
           first == BatchFirst(k)
           last == BatchLast(k, Len(names))
           batch_len == last - first + 1
       IN  \E response \in CleanResponses(batch_len), write_error_at \in 0..batch_len :
             LET attempted == IF response.kind = "names"
                              THEN Min(response.count, batch_len) ELSE 0
                 index_error == response.kind = "names" /\ response.count > batch_len
                 write_failed == write_error_at \in 1..attempted
                 written == IF write_failed THEN write_error_at - 1 ELSE attempted
             IN  /\ names' = WriteNames(names, first, written)
                 /\ batch_log' = Append(batch_log,
                                        [first |-> first, last |-> last,
                                         failed |-> \/ response.kind # "names"
                                                    \/ write_failed
                                                    \/ index_error,
                                         before |-> names])
    /\ UNCHANGED <<vo_in, vo_out, cp_in, cp_out, sel_in, sel_out, q_in, q_out,
                   pk_in, pk_out, cycleVars>>

NextClean == CleanBatch

SpecClean == InitClean /\ [][NextClean]_vars

-----------------------------------------------------------------------------
(* Properties of validate_opportunity *)

\* C1: for every input, validate_opportunity returns a confidence in [0,100].
C1_ConfidenceClamped ==
    vo_out.called => vo_out.confidence \in 0..100

\* C1 witness: a call whose unclamped confidence lies outside [0,100] has returned.
C1_Witness ==
    /\ vo_out.called
    /\ RawConfidence(vo_in, vo_in.profit) \notin 0..100

StatusRank(status) ==
    CASE status = "Profitable" -> 3
      [] status = "Potential" -> 2
      [] status = "Risky" -> 1
      [] OTHER -> 0

\* C2: status and is_valid are step functions of the returned (clamped)
\* confidence: Profitable iff >= 80, Potential iff in [60,80), Risky iff < 60,
\* is_valid iff >= 60; and against the result for any other profit on the same
\* listing, a higher returned confidence never has a lower-ranked status.
C2_StatusStepFunction ==
    vo_out.called =>
        /\ (vo_out.status = "Profitable") <=> (vo_out.confidence >= 80)
        /\ (vo_out.status = "Potential") <=>
               (vo_out.confidence >= 60 /\ vo_out.confidence < 80)
        /\ (vo_out.status = "Risky") <=> (vo_out.confidence < 60)
        /\ vo_out.is_valid <=> (vo_out.confidence >= 60)
        /\ \A p \in Profits :
               LET other == validate_opportunity(vo_in, p)
               IN  other.confidence >= vo_out.confidence =>
                       StatusRank(other.status) >= StatusRank(vo_out.status)

\* C2 witness: a result whose confidence was changed by the clamp, so the status
\* (taken from the unclamped value) is compared with a different number.
C2_Witness ==
    /\ vo_out.called
    /\ RawConfidence(vo_in, vo_in.profit) > 100
    /\ vo_out.confidence = 100
    /\ vo_out.status = "Profitable"

\* The margin adjustment the claim C5 prescribes for a profit in cents.
C5_ClaimedMargin(profit) ==
    IF IsNone(profit) THEN -40
    ELSE IF Val(profit) >= 5000 THEN 20
    ELSE IF Val(profit) >= 2500 THEN 15
    ELSE IF Val(profit) >= 1000 THEN 10
    ELSE -30

\* C5: the margin layer adjusts by +20 / +15 / +10 for profit >= 50 / 25 / 10,
\* by -30 for every defined profit below 10 (0 and negatives included), and by
\* -40 only when the profit is undefined.
C5_MarginLayer ==
    vo_out.called =>
        /\ ProfitLayer(vo_in.profit)[1] = C5_ClaimedMargin(vo_in.profit)
        /\ (vo_out.warnings[2] = "No profit data") <=> IsNone(vo_in.profit)

-----------------------------------------------------------------------------
(* Properties of calculate_profit *)

\* Section 4.5 of the design: a sale price that is missing or zero.
C3_Missing(x) == IsNone(x) \/ Val(x) = 0

\* C3: profit and ROI are both undefined iff the cost or the sale price is
\* missing or the cost is <= 0; for a cost that is not > 0 the ROI is undefined,
\* never 0.
C3_UndefinedIffMissing ==
    cp_out.called =>
        /\ (IsNone(cp_out.profit) /\ IsNone(cp_out.roi)) <=>
               \/ IsNone(cp_in.costco_price)
               \/ C3_Missing(cp_in.amazon_price)
               \/ Val(cp_in.costco_price) <= 0
        /\ (IsNone(cp_in.costco_price) \/ Val(cp_in.costco_price) <= 0) =>
               IsNone(cp_out.roi)

\* C4: for cost > 0, sale > 0 and fees >= 0, profit is sale - cost - fees - 15%
\* of sale rounded to the cent, ROI is (unrounded profit) / cost * 100 rounded
\* to 0.01; cost 20.00, sale 45.00, fees 3.00 gives profit 15.25 and ROI 76.25.
C4_ProfitAndRoi ==
    (/\ cp_out.called
     /\ ~IsNone(cp_in.costco_price) /\ Val(cp_in.costco_price) > 0
     /\ ~IsNone(cp_in.amazon_price) /\ Val(cp_in.amazon_price) > 0) =>
        LET cost == Val(cp_in.costco_price)
            sale == Val(cp_in.amazon_price)
            exact == 100 * sale - 100 * cost - 100 * cp_in.fba_fees - 15 * sale
        IN  /\ ~IsNone(cp_out.profit) /\ ~IsNone(cp_out.roi)
            /\ 2 * Abs(100 * Val(cp_out.profit) - exact) <= 100
            /\ 2 * Abs(cost * Val(cp_out.roi) - 100 * exact) <= cost
            /\ (cost = 2000 /\ sale = 4500 /\ cp_in.fba_fees = 300) =>
                   (Val(cp_out.profit) = 1525 /\ Val(cp_out.roi) = 7625)

\* C4 witness: the scenario has been computed, and so has a case where the ROI
\* of the rounded profit would differ from the ROI of the unrounded one.
C4_Witness ==
    /\ cp_out.called
    /\ cp_in = [costco_price |-> Some(2000), amazon_price |-> Some(4500),
                fba_fees |-> 300]
    /\ cp_out.profit = Some(1525)

-----------------------------------------------------------------------------
(* Properties of validate_best_amazon_match *)

\* Case-insensitive comparison of brands, as str.lower() does it.
LowerChar(c) ==
    CASE c = "H" -> "h"
      [] c = "P" -> "p"
      [] c = "L" -> "l"
      [] c = "G" -> "g"
      [] OTHER -> c

Lower(str) == [i \in 1..Len(str) |-> LowerChar(str[i])]

BrandOfAsin(asin) == (CHOOSE l \in Catalog : l.asin = asin).brand

\* The judge answered with a JSON object carrying a numeric confidence.
SelJudgedWithConfidence ==
    /\ sel_out.called
    /\ sel_in.response.kind = "json_object"
    /\ sel_in.response.confidence.t = "number"

\* The judge answered with a numeric confidence and a numeric index.
SelJudgedWithIndex ==
    /\ SelJudgedWithConfidence
    /\ sel_in.response.index.t = "number"

\* C6: whenever the judge's output parses and carries a confidence below 75
\* (0 included), validate_best_amazon_match returns no match, for any candidate
\* list and any selected index.
C6_LowConfidenceNoMatch ==
    (SelJudgedWithConfidence /\ sel_in.response.confidence.v < 75) =>
        (~sel_out.raised /\ sel_out.value = None)

\* C6 witness: confidence 40 on a valid index into a non-empty list returned
\* no match.
C6_Witness ==
    /\ SelJudgedWithIndex
    /\ sel_in.response.confidence.v = 40
    /\ sel_in.response.index.v \in 1..Len(sel_in.amazon_results)
    /\ sel_out.value = None

\* C7: in judged selection, whenever the brand of the source product and the
\* brand of the candidate the judge selects differ case-insensitively, no
\* candidate is attached, whatever confidence and index the judge reports.
C7_BrandMismatchRejected ==
    (/\ SelJudgedWithIndex
     /\ sel_in.response.index.v \in 1..Len(sel_in.amazon_results)
     /\ Lower(sel_in.amazon_results[sel_in.response.index.v].brand)
            # Lower(sel_in.costco_product.brand)) =>
        sel_out.value = None

\* C8: a selected-index of 0 attaches no candidate whatever the confidence; a
\* non-zero selected-index i (accepted at confidence >= 75) attaches exactly
\* the i-th candidate, counted from 1, of the list.
C8_IndexZeroMeansNone ==
    SelJudgedWithIndex =>
        LET i == sel_in.response.index.v
            results == sel_in.amazon_results
        IN  /\ i = 0 => sel_out.value = None
            /\ (i \in 1..Len(results) /\ sel_in.response.confidence.v >= 75) =>
                   /\ sel_out.value # None
                   /\ Val(sel_out.value).asin = results[i].asin

\* The response is an error of the call or is unparseable in the sense of C10:
\* not JSON, or an object whose index is missing or lies beyond the list.
C10_ErrorOrUnparseable ==
    \/ sel_in.response.kind \in {"raise", "not_json"}
    \/ /\ sel_in.response.kind = "json_object"
       /\ sel_in.response.confidence.t = "number"
       /\ \/ sel_in.response.index.t = "absent"
          \/ /\ sel_in.response.index.t = "number"
             /\ sel_in.response.index.v > Len(sel_in.amazon_results)

\* The deterministic strategy's result: the first candidate at confidence 70.
C10_FirstCandidateAt70 ==
    /\ ~sel_out.raised
    /\ sel_out.value # None
    /\ Val(sel_out.value).asin = sel_in.amazon_results[1].asin
    /\ Val(sel_out.value).match_confidence = 70

\* C10 as stated: when the judgment call raises or its response is unparseable
\* (not JSON, missing index, index beyond the list), the first candidate is
\* returned at match confidence 70 and nothing is raised.
C10_FallbackOnUnparseable ==
    (sel_out.called /\ sel_in.amazon_results # <<>> /\ C10_ErrorOrUnparseable) =>
        C10_FirstCandidateAt70

\* C10 amended: the fallback is taken when the call raises, the response is not
\* JSON, or the response carries a confidence of at least 75 with a missing
\* index or an index beyond the list; the candidate list is non-empty.
C10_FallbackWhenAccepted ==
    (/\ sel_out.called
     /\ sel_in.amazon_results # <<>>
     /\ C10_ErrorOrUnparseable
     /\ sel_in.response.kind = "json_object" => sel_in.response.confidence.v >= 75) =>
        C10_FirstCandidateAt70

\* C10 witness: confidence 90 with an index beyond a two-candidate list whose
\* first candidate differs from the others fell back to the first candidate.
C10_Witness ==
    /\ SelJudgedWithIndex
    /\ sel_in.response.confidence.v = 90
    /\ Len(sel_in.amazon_results) = 2
    /\ sel_in.response.index.v = 3
    /\ sel_in.amazon_results[1] # sel_in.amazon_results[2]
    /\ C10_FirstCandidateAt70

-----------------------------------------------------------------------------
(* Properties of match_products *)

\* C9: every Match Confidence Score a matching cycle persists on a product lies
\* in [0,100], for every possible response of the judgment procedure.
C9_PersistedConfidenceInRange ==
    \A id \in ProductIds :
        store[id].MatchConfidence # None =>
            Val(store[id].MatchConfidence) \in 0..100

\* The current step handles the record at the head of the queue.
HandlingOverride ==
    /\ pc = "running"
    /\ queue # <<>>
    /\ Head(queue).fields.Status = "ASIN Override"

HandlingSearch ==
    /\ pc = "running"
    /\ queue # <<>>
    /\ Head(queue).fields.Status # "ASIN Override"

\* C11: a failure while handling one product (a retrieval error, an unavailable
\* or failing judgment procedure, a write error of the record store) never
\* halts the cycle: the run never ends on an exception with later products of
\* its queue still unhandled.
C11_FailureNeverHaltsCycle ==
    ~(pc = "crashed" /\ Len(queue) > 1)

\* C12: whenever the override path has fetched the supplied listing, the update
\* it persists clears the override identifier, on success ('Matched') and on
\* failure or a listing without price ('Not Found') alike.
C12_OverrideCleared ==
    [][(HandlingOverride /\ retrieval'.called /\ store' # store) =>
          LET id == Head(queue).id
          IN  /\ store'[id].OverrideASIN = ""
              /\ store'[id].Status \in {"Matched", "Not Found"}
              /\ store'[id].Status = "Matched" <=>
                     (retrieval'.returned # None
                      /\ Truthy(Val(retrieval'.returned).amazon_price))]_vars

\* C12 witness: one override was matched earlier in the run and the override
\* just handled failed in transport; both records have a blank identifier.
C12_Witness ==
    /\ pc = "running"
    /\ calls = <<"fetch_product_by_asin", "update_product">>
    /\ retrieval.called
    /\ retrieval.kind = "transport_error"
    /\ \E matched, failed \in ProductIds :
         /\ store[matched].Status = "Matched"
         /\ store[matched].MatchConfidence = Some(100)
         /\ store[matched].OverrideASIN = ""
         /\ store[failed].Status = "Not Found"
         /\ store[failed].OverrideASIN = ""

\* C13: once a cycle has handled a product whose status is 'ASIN Override', the
\* product's status is no longer 'ASIN Override'.
C13_OverrideStatusLeft ==
    [][(HandlingOverride /\ queue' = Tail(queue)) =>
          store'[Head(queue).id].Status # "ASIN Override"]_vars

\* C14: for a product in status 'ASIN Override' with a supplied identifier the
\* cycle calls neither the catalog search nor the judgment procedure; it makes
\* one fetch, of exactly the supplied listing, and on success persists
\* confidence 100 and status 'Matched'.
C14_OverrideFetchesOnly ==
    [][(HandlingOverride /\ Head(queue).fields.OverrideASIN # "") =>
          LET id == Head(queue).id
              asin == Head(queue).fields.OverrideASIN
              fetches == { i \in 1..Len(calls') : calls'[i] = "fetch_product_by_asin" }
          IN  /\ fetches = {1}
              /\ \A i \in 1..Len(calls') :
                     calls'[i] \notin {"search_amazon_product", "validate_best_amazon_match"}
              /\ retrieval'.called
              /\ retrieval'.function = "fetch_product_by_asin"
              /\ retrieval'.returned # None => Val(retrieval'.returned).asin = asin
              /\ (/\ retrieval'.returned # None
                  /\ Truthy(Val(retrieval'.returned).amazon_price)
                  /\ pc' = "running") =>
                     /\ store'[id].Status = "Matched"
                     /\ store'[id].MatchConfidence = Some(100)
                     /\ store'[id].AmazonASIN = Some(asin)]_vars

\* C14 witness: the override with listing B00A was fetched, priced and written.
C14_Witness ==
    /\ pc = "running"
    /\ calls = <<"fetch_product_by_asin", "calculate_profit", "update_product">>
    /\ retrieval.called
    /\ retrieval.function = "fetch_product_by_asin"
    /\ retrieval.kind = "results"
    /\ \E id \in ProductIds :
         /\ store[id].Status = "Matched"
         /\ store[id].MatchConfidence = Some(100)
         /\ store[id].AmazonASIN = Some("B00A")
         /\ store[id].OverrideASIN = ""

\* A run started on `day` or within the staleness window after it, without a
\* batch cap, has the record in its queue.
SelectedByLaterCycle(table, id, day) ==
    \E later \in day..(day + MAX_DAYS_OLD + 1) :
        \E i \in 1..Len(PriorityQueue(table, later, None, MAX_DAYS_OLD)) :
            PriorityQueue(table, later, None, MAX_DAYS_OLD)[i].id = id

\* C15: a product whose retrieval ended in a transport failure is not retried
\* in the same cycle and stays eligible: a later cycle selects it again with no
\* manual change of the record.
C15_TransportFailureStaysEligible ==
    [][(/\ HandlingSearch
        /\ retrieval'.called
        /\ retrieval'.kind = "transport_error"
        /\ queue' = Tail(queue)) =>
          /\ calls' = <<"search_amazon_product", "update_product">>
          /\ SelectedByLaterCycle(store', Head(queue).id, now)]_vars

\* C16: search_amazon_product reports 'no results' with a value its caller can
\* tell apart from the value it returns on a transport failure.
C16_NoResultsDistinguished ==
    (/\ retrieval.called
     /\ retrieval.function = "search_amazon_product"
     /\ retrieval.kind = "no_results") =>
        \A outcome \in SearchOutcomes :
            outcome.kind = "transport_error" =>
                search_amazon_product(outcome) # retrieval.returned

-----------------------------------------------------------------------------
(* Properties of the priority queue *)

\* The queue's three groups, in priority order; 0 for a record it never holds.
QueueGroup(fields, today) ==
    IF fields.Status = "ASIN Override" THEN 1
    ELSE IF fields.Status = "New" THEN 2
    ELSE IF /\ fields.Status = "Matched"
            /\ \/ fields.LastUpdated = None
               \/ Val(fields.LastUpdated) < today - MAX_DAYS_OLD
         THEN 3
    ELSE 0

\* Lower confidence first (a record without a score counts as 100), then the
\* older last update first (a record never updated is the oldest).
RecheckedNoLater(a, b) ==
    LET ca == IF a.MatchConfidence = None THEN 100 ELSE Val(a.MatchConfidence)
        cb == IF b.MatchConfidence = None THEN 100 ELSE Val(b.MatchConfidence)
    IN  \/ ca < cb
        \/ /\ ca = cb
           /\ \/ a.LastUpdated = None
              \/ b.LastUpdated # None /\ Val(a.LastUpdated) <= Val(b.LastUpdated)

\* C17: outside test mode and without a cap, the queue holds every 'ASIN
\* Override' record, then every 'New' record, then every 'Matched' record whose
\* last update is blank or older than the staleness window, these by ascending
\* match confidence and then oldest last update first; it holds nothing else,
\* and no record of a later group precedes one of an earlier group.
C17_QueueOrder ==
    (q_out.called /\ q_in.batch_size = None) =>
        LET table == q_in.table
            products == q_out.products
        IN  /\ \A id \in 1..Len(table) :
                   QueueGroup(table[id], q_in.today) # 0 <=>
                       \E i \in 1..Len(products) : products[i].id = id
            /\ \A i, j \in 1..Len(products) :
                   /\ products[i].fields = table[products[i].id]
                   /\ i # j => products[i].id # products[j].id
                   /\ i < j =>
                        /\ QueueGroup(products[i].fields, q_in.today)
                               <= QueueGroup(products[j].fields, q_in.today)
                        /\ QueueGroup(products[i].fields, q_in.today) = 3 =>
                               RecheckedNoLater(products[i].fields, products[j].fields)

\* C17 witness: a table holding, in this order, a stale match without a score,
\* a stale match scored 70 and an override is queued in the reverse order.
C17_Witness ==
    /\ q_out.called
    /\ q_in.batch_size = None
    /\ Len(q_in.table) = 3
    /\ q_in.table[1].Status = "Matched" /\ q_in.table[1].MatchConfidence = None
    /\ q_in.table[2].Status = "Matched" /\ q_in.table[2].MatchConfidence = Some(70)
    /\ q_in.table[2].LastUpdated = Some(QueueToday - MAX_DAYS_OLD - 1)
    /\ q_in.table[1].LastUpdated = Some(0)
    /\ q_in.table[3].Status = "ASIN Override"
    /\ Len(q_out.products) = 3
    /\ q_out.products[1].id = 3
    /\ q_out.products[2].id = 2
    /\ q_out.products[3].id = 1

\* C18: for every batch-size cap b >= 0 of a run whose queue has n products,
\* the products the run handles are exactly the first min(b, n) of the queue,
\* in priority order.
C18_FirstMinOfCapAndQueue ==
    (q_out.called /\ q_in.batch_size # None) =>
        LET whole == PriorityQueue(q_in.table, q_in.today, None, MAX_DAYS_OLD)
        IN  q_out.products = SubSeq(whole, 1, Min(Val(q_in.batch_size), Len(whole)))

-----------------------------------------------------------------------------
(* Properties of the price-stability layer *)

\* The confidence the first three layers produce from the baseline.
ThreeLayers ==
    50 + SalesRankLayer(vo_in.sales_rank)[1]
       + ProfitLayer(vo_in.profit)[1]
       + OfferLayer(vo_in.offer_count)[1]

\* The fourth layer left its signal, and the confidence is the three layers'
\* plus one of its adjustments.
StabilityLayerApplied ==
    /\ Len(vo_out.warnings) = 4
    /\ vo_out.confidence \in { Clamp(ThreeLayers + a) : a \in {10, 5, -15} }

StabilityLayerSkipped ==
    /\ Len(vo_out.warnings) = 3
    /\ vo_out.confidence = Clamp(ThreeLayers)

\* C19 as stated: the price-stability layer adjusts the confidence if and only
\* if the price history has at least 10 samples; with fewer the confidence is
\* that of the other three layers alone.
C19_AdjustsIffTenSamples ==
    vo_out.called =>
        /\ Len(vo_in.price_history) >= 10 => StabilityLayerApplied
        /\ Len(vo_in.price_history) < 10 => StabilityLayerSkipped

\* C19 amended: the layer adjusts the confidence if and only if the history has
\* at least 10 samples and the current price is present and not zero;
\* otherwise the confidence is that of the other three layers alone.
C19_AdjustsIffTenSamplesAndPrice ==
    vo_out.called =>
        IF Len(vo_in.price_history) >= 10 /\ Truthy(vo_in.amazon_price)
        THEN StabilityLayerApplied
        ELSE StabilityLayerSkipped

\* C19 witness: ten samples and a current price moved the confidence away from
\* the three layers' value.
C19_Witness ==
    /\ vo_out.called
    /\ Len(vo_in.price_history) = 10
    /\ Truthy(vo_in.amazon_price)
    /\ Len(vo_out.warnings) = 4
    /\ vo_out.confidence # Clamp(ThreeLayers)

\* C20: a listing with a sales rank below 10,000 and at least 5 offers, at a
\* profit of at least $50, is returned with confidence >= 80, status
\* 'Profitable' and is_valid true, whatever its price history and price.
C20_StrongListingProfitable ==
    (/\ vo_out.called
     /\ Truthy(vo_in.sales_rank)
     /\ Val(vo_in.sales_rank) < 10000
     /\ vo_in.offer_count >= 5
     /\ vo_in.profit # None
     /\ Val(vo_in.profit) >= 5000) =>
        /\ vo_out.confidence >= 80
        /\ vo_out.status = "Profitable"
        /\ vo_out.is_valid

\* C20 witness: such a listing with a volatile price was returned at 90.
C20_Witness ==
    /\ vo_out.called
    /\ vo_in.sales_rank = Some(9999)
    /\ vo_in.offer_count = 5
    /\ vo_in.profit = Some(5000)
    /\ Len(vo_in.price_history) >= 10
    /\ vo_out.warnings[Len(vo_out.warnings)] = "Volatile price"
    /\ vo_out.confidence = 90
    /\ vo_out.status = "Profitable"

-----------------------------------------------------------------------------
(* Properties of one loop iteration of match_products *)

\* The loop is about to handle the record at the head of the queue.
Handling == pc = "running" /\ queue # <<>>

\* After the step, the loop holds a listing with a price (lines 728, 803).
ListingSelected ==
    /\ retrieval'.called
    /\ retrieval'.selected # None
    /\ Truthy(Val(retrieval'.selected).amazon_price)

\* C21: each product for which a listing is selected has its opportunity score
\* computed by validate_opportunity after calculate_profit and before the
\* result is persisted.
C21_ValidatorBetweenProfitAndPersist ==
    [][(Handling /\ ListingSelected) =>
          \E i, j, k \in 1..Len(calls') :
              /\ i < j /\ j < k
              /\ calls'[i] = "calculate_profit"
              /\ calls'[j] = "validate_opportunity"
              /\ calls'[k] = "update_product"]_vars

\* C22: when the retrieval yields no candidates, the iteration calls neither
\* the selector nor calculate_profit nor validate_opportunity; the one update
\* it writes marks the product 'Not Found'.
C22_NoCandidatesNotFound ==
    [][(HandlingSearch /\ retrieval'.called /\ retrieval'.returned = <<>>) =>
          /\ calls' = <<"search_amazon_product", "update_product">>
          /\ pc' = "running" =>
                 /\ store'[Head(queue).id].Status = "Not Found"
                 /\ queue' = Tail(queue)
          /\ pc' # "running" => store' = store]_vars

\* C22 witness: a search answered with no products, and the product was
\* written 'Not Found'.
C22_Witness ==
    /\ pc = "running"
    /\ retrieval.called
    /\ retrieval.function = "search_amazon_product"
    /\ retrieval.kind = "no_results"
    /\ retrieval.returned = <<>>
    /\ calls = <<"search_amazon_product", "update_product">>
    /\ \E id \in ProductIds :
         /\ store[id].Status = "Not Found"
         /\ store[id].LastUpdated = Some(now)

\* The iteration ran to its end: the record was written and the loop went on.
Completed ==
    /\ Handling
    /\ retrieval'.called
    /\ pc' = "running"
    /\ queue' = Tail(queue)

\* C23: whenever a cycle matches a product that has a stored Amazon price and
\* the retrieved price differs from it, the cycle appends a history entry
\* (product, old price, new price); entries already in the history are never
\* changed or removed.
C23_PriceChangeLogged ==
    [][/\ (/\ Completed
           /\ ListingSelected
           /\ Truthy(Head(queue).fields.AmazonPrice)
           /\ Val(retrieval'.selected).amazon_price # Head(queue).fields.AmazonPrice) =>
              history' = Append(history,
                                [Product |-> Head(queue).id,
                                 OldPrice |-> Val(Head(queue).fields.AmazonPrice),
                                 NewPrice |-> Val(Val(retrieval'.selected).amazon_price)])
       /\ Len(history') >= Len(history)
       /\ SubSeq(history', 1, Len(history)) = history]_vars

\* C28: a product whose status is 'Not Found' has no Amazon listing attached:
\* no Amazon ASIN, Amazon price or match confidence of an earlier match is left
\* on the record.
C28_NotFoundHasNoListing ==
    \A id \in ProductIds :
        store[id].Status = "Not Found" =>
            /\ store[id].AmazonASIN = None
            /\ store[id].AmazonPrice = None
            /\ store[id].MatchConfidence = None

\* C29: every update that sets a product to 'Matched' stores a defined,
\* strictly positive Amazon price and a match confidence of at least 70 (70
\* from the fallback, at least 75 from the judge, 100 from the override path);
\* a selected listing without a price gives 'Not Found' instead.
C29_MatchedHasPriceAndConfidence ==
    [][Completed =>
          LET stored == store'[Head(queue).id]
              override == Head(queue).fields.Status = "ASIN Override"
          IN  /\ stored.Status \in {"Matched", "Not Found"}
              /\ stored.Status = "Matched" =>
                     /\ stored.AmazonPrice # None
                     /\ Val(stored.AmazonPrice) > 0
                     /\ stored.MatchConfidence # None
                     /\ Val(stored.MatchConfidence) >= 70
                     /\ override => Val(stored.MatchConfidence) = 100
                     /\ ~override => \/ Val(stored.MatchConfidence) = 70
                                     \/ Val(stored.MatchConfidence) >= 75
              /\ (/\ retrieval'.selected # None
                  /\ Val(retrieval'.selected).amazon_price = None) =>
                     stored.Status = "Not Found"]_vars

\* C29 witness: one product was matched by the fallback at 70, and the product
\* just handled had a listing without a price selected and was written 'Not
\* Found'.
C29_Witness ==
    /\ pc = "running"
    /\ retrieval.called
    /\ retrieval.function = "search_amazon_product"
    /\ retrieval.selected # None
    /\ Val(retrieval.selected).amazon_price = None
    /\ calls = <<"search_amazon_product", "validate_best_amazon_match", "update_product">>
    /\ \E matched, unpriced \in ProductIds :
         /\ store[matched].Status = "Matched"
         /\ store[matched].MatchConfidence = Some(70)
         /\ Val(store[matched].AmazonPrice) > 0
         /\ store[unpriced].Status = "Not Found"
         /\ store[unpriced].LastUpdated = Some(now)

-----------------------------------------------------------------------------
(* Properties of parse_keepa_product *)

\* The primary price series of the record given to the parser; empty if the
\* record has none.
PrimarySeries == IF Len(pk_in.csv) > 1 THEN pk_in.csv[2] ELSE <<>>

\* C24: parse_keepa_product returns as price the most recent strictly positive
\* sample of the primary price series, and an undefined price only when the
\* series is absent or holds no positive sample.
C24_LatestPositiveSample ==
    pk_out.called =>
        LET positive == SelectSeq(PrimarySeries, IsPositive)
        IN  pk_out.product.amazon_price =
                IF positive # <<>> THEN Some(Last(positive)) ELSE None

-----------------------------------------------------------------------------
(* Properties of clean_product_names_batch *)

\* C25: when the handling of a batch ends in failure, every sibling batch is
\* still attempted and every product of the failed batch keeps the cleaned
\* name (or the absence of one) it had before the batch started.
C25_FailedBatchKeepsNames ==
    \A k \in 1..Len(batch_log) :
        batch_log[k].failed =>
            /\ \A id \in batch_log[k].first..batch_log[k].last :
                   names[id] = batch_log[k].before[id]
            /\ k < NumBatches(Len(names)) => ENABLED CleanBatch \/ Len(batch_log) > k

-----------------------------------------------------------------------------
(* Properties of the Costco sync *)

\* C26: a 'Matched' product is selected for re-check by the first matching run
\* that starts more than the staleness window after its last match (day 0
\* here), batch cap permitting, also when Costco syncs of the product ran in
\* between.
C26_StaleMatchSelected ==
    (/\ q_out.called
     /\ q_in.batch_size = None
     /\ q_in.today > MAX_DAYS_OLD) =>
        \A id \in 1..Len(q_in.table) :
            q_in.table[id].Status = "Matched" =>
                \E i \in 1..Len(q_out.products) : q_out.products[i].id = id

\* C27: after any step of the sync, also one in which a store call failed,
\* every change of an existing product's stored Costco price has its history
\* entry with the old and the new price, and a history entry is logged only
\* when the stored price changed.
C27_PriceChangeHasEntry ==
    [][/\ \A id \in 1..Len(store) :
              store'[id].CostcoPrice # store[id].CostcoPrice =>
                  history' = Append(history,
                                    [Product |-> id,
                                     OldPrice |-> Val(store[id].CostcoPrice),
                                     NewPrice |-> Val(store'[id].CostcoPrice)])
       /\ history' # history =>
              \E id \in 1..Len(store) :
                  store'[id].CostcoPrice # store[id].CostcoPrice]_vars

====
